---- MODULE Spec2Model ----
(***************************************************************************)
(* valkey-manager: the reconciliation handler (cluster.UpdateHandler), the *)
(* configurator (cluster.Configure and what it calls), the cluster info    *)
(* reader (cluster.InfoFromString, Info.getInt32) and the health surface   *)
(* (Manager.runHealthService), as a state machine.                         *)
(*                                                                         *)
(* The informer's deliveries run as the threads of Threads; each is one    *)
(* goroutine inside OnAdd/OnUpdate/OnDelete.  The valkey stores, DNS and   *)
(* the process signal are the environment: every call to them may succeed  *)
(* or fail.                                                                *)
(***************************************************************************)
EXTENDS Integers, Sequences, FiniteSets, TLC

\* ------------------------------------------------------------------ bounds
\* Largest declared member count (Spec.Replicas) an event carries.
MaxTotal == 4
\* Largest declared member count in the single-delivery specification SeqSpec.
MaxTotalSeq == 6
\* Largest member index (-index / INDEX) the process is started with.
MaxIndex == 2
\* Largest primary count of the slot-plan specification SlotSpec.
MaxPrimaries == 6
\* Largest member index in the single-delivery specification SeqSpec.
MaxIndexSeq == 5
\* Largest declared member count of the role-plan specification PlanSpec.
MaxPlanTotal == 7
\* Longest text (in tokens) given to InfoFromString in ParseSpec.
MaxTextLen == 6

\* ------------------------------------------------------- program constants
TotalSlotCount == 16384
Int32Max == 2147483647

Threads == {"t1", "t2"}
NoThread == "none"

\* ----------------------------------------------------------- Go arithmetic
Max(a, b) == IF a >= b THEN a ELSE b
Min(a, b) == IF a <= b THEN a ELSE b

\* Go's integer division truncates toward zero.
GoDiv(a, b) == IF a >= 0 THEN a \div b ELSE -((-a) \div b)
\* Go's remainder has the sign of the dividend.
GoMod(a, b) == a - b * GoDiv(a, b)

\* ------------------------------------------------------ cluster info reader
\* A status text is a sequence of tokens: "\n", "\r", ":", "+", "-", the
\* digits, and any other string, which stands for a run of other characters.
NL == "\n"
CR == "\r"
Colon == ":"

DigitValue(c) ==
    CASE c = "0" -> 0 [] c = "1" -> 1 [] c = "2" -> 2 [] c = "3" -> 3
      [] c = "4" -> 4 [] c = "5" -> 5 [] c = "6" -> 6 [] c = "7" -> 7
      [] c = "8" -> 8 [] c = "9" -> 9 [] OTHER -> -1

\* bufio.ScanLines: the lines of the text, a final line without "\n" included,
\* no empty line after the last "\n", one trailing "\r" dropped from each.
DropCR(line) ==
    IF Len(line) > 0 /\ line[Len(line)] = CR
    THEN SubSeq(line, 1, Len(line) - 1)
    ELSE line

RECURSIVE ScanLinesAcc(_, _, _)
ScanLinesAcc(in, cur, acc) ==
    IF in = <<>>
    THEN IF cur = <<>> THEN acc ELSE Append(acc, DropCR(cur))
    ELSE IF Head(in) = NL
         THEN ScanLinesAcc(Tail(in), <<>>, Append(acc, DropCR(cur)))
         ELSE ScanLinesAcc(Tail(in), Append(cur, Head(in)), acc)

ScanLines(in) == ScanLinesAcc(in, <<>>, <<>>)

\* strings.Split(line, ":"): always at least one piece.
RECURSIVE SplitAcc(_, _, _)
SplitAcc(s, cur, acc) ==
    IF s = <<>>
    THEN Append(acc, cur)
    ELSE IF Head(s) = Colon
         THEN SplitAcc(Tail(s), <<>>, Append(acc, cur))
         ELSE SplitAcc(Tail(s), Append(cur, Head(s)), acc)

Split(s) == SplitAcc(s, <<>>, <<>>)

\* The Info map after the lines: a later line overwrites an earlier one.
RECURSIVE InfoOfLines(_, _)
InfoOfLines(lines, i) ==
    IF lines = <<>>
    THEN i
    ELSE LET pieces == Split(Head(lines))
         IN  IF Len(pieces) # 2
             THEN InfoOfLines(Tail(lines), i)
             ELSE InfoOfLines(Tail(lines),
                      [k \in DOMAIN i \cup {pieces[1]} |->
                          IF k = pieces[1] THEN pieces[2] ELSE i[k]])

EmptyInfo == [k \in {} |-> <<>>]

\* An Info value: the nil map, or a map.
NilInfo == [nil |-> TRUE, m |-> EmptyInfo]
InfoMap(i) == [nil |-> FALSE, m |-> i]

\* Mutant: a text without any field gives the empty map and no error.
InfoFromStringNoError(in) ==
    [err |-> FALSE, info |-> InfoMap(InfoOfLines(ScanLines(in), EmptyInfo))]

\* InfoFromString: [err, info].
InfoFromString(in) ==
    LET i == InfoOfLines(ScanLines(in), EmptyInfo)
    IN  IF Cardinality(DOMAIN i) < 1
        THEN [err |-> TRUE, info |-> NilInfo]
        ELSE [err |-> FALSE, info |-> InfoMap(i)]

\* What InfoFromString returned, before and after the call.
NotParsed == [done |-> FALSE, err |-> FALSE, info |-> NilInfo]
Parsed(r) == [done |-> TRUE, err |-> r.err, info |-> r.info]

\* The value of a run of decimal digits; -1 for a character that is no digit
\* (a syntax error) or a value above the 32-bit range (a range error).
RECURSIVE DigitsValue(_, _)
DigitsValue(s, acc) ==
    IF s = <<>>
    THEN acc
    ELSE LET d == DigitValue(Head(s))
         IN  IF d < 0 \/ acc < 0 THEN -1
             ELSE IF acc > (Int32Max - d) \div 10 THEN -1
             ELSE DigitsValue(Tail(s), acc * 10 + d)

\* strconv.ParseInt(s, 10, 32): [err, val].  (The one value -2^31 is outside
\* the model's integers and is read as out of range.)
ParseInt32(s) ==
    LET neg  == Len(s) > 0 /\ Head(s) = "-"
        sign == Len(s) > 0 /\ Head(s) \in {"+", "-"}
        ds   == IF sign THEN Tail(s) ELSE s
        v    == DigitsValue(ds, 0)
    IN  IF ds = <<>> \/ v < 0
        THEN [err |-> TRUE, val |-> 0]
        ELSE [err |-> FALSE, val |-> IF neg THEN -v ELSE v]

LocalEpochInfoKey == <<"cluster_current_epoch">>
SlotsAssignedInfoKey == <<"cluster_slots_assigned">>

getInt32(ci, keyName) ==
    IF ci.nil THEN -1
    ELSE IF keyName \notin DOMAIN ci.m THEN -1
    ELSE LET p == ParseInt32(ci.m[keyName])
         IN  IF p.err THEN -1 ELSE p.val

LocalEpoch(ci) == getInt32(ci, LocalEpochInfoKey)
SlotsAssigned(ci) == getInt32(ci, SlotsAssignedInfoKey)

\* --------------------------------------------------------- topology planner
\* Mutant: half the total rounded up.
primariesAndReplicasRoundUp(totalCount) ==
    LET primaries == Max(1, GoDiv(totalCount + 1, 2))
    IN  [primaries |-> primaries, replicas |-> totalCount - primaries]

primariesAndReplicas(totalCount) ==
    LET primaries == Max(1, GoDiv(totalCount, 2))
    IN  [primaries |-> primaries, replicas |-> totalCount - primaries]

slotSize(primaryCount) == GoDiv(TotalSlotCount, primaryCount)

firstSlot(ourIdx, primaryCnt) == ourIdx * slotSize(primaryCnt)

\* Mutant: min in place of max, and no remainder for the last primary.
lastSlotMin(ourIdx, primaryCnt) ==
    Min(TotalSlotCount, firstSlot(ourIdx, primaryCnt) + slotSize(primaryCnt)) - 1

lastSlot(ourIdx, primaryCnt) ==
    Max(TotalSlotCount, firstSlot(ourIdx, primaryCnt) + slotSize(primaryCnt)) - 1

\* -------------------------------------------------------------------- state
VARIABLES
    ourIndex,           \* the member index the process was started with
    ctxDone,            \* the process context is cancelled
    proc,               \* "running", "panicked" or "exited"
    clusterConfigured,  \* updateHandler.clusterConfigured
    mu,                 \* updateHandler.mu: the goroutine holding the write lock
    pc,                 \* each delivery goroutine's position
    ev,                 \* the event a goroutine is handling
    ss,                 \* the Spec.Replicas pointer of the object given to the updater
    addr,               \* WaitPing's addr: LocalAddr or a member index
    primaryCount,       \* Configure's primaryCount
    clusterInfo,        \* ConfigurePrimaryNode's clusterInfo
    peerIndex,          \* ConfigurePrimaryNode's loop variable
    err,                \* the error Configure returns
    log,                \* the calls to the stores and to DNS made by the running attempt
    store,              \* the local valkey instance
    rpc,                \* the /readyz handler's position
    readyzStatus,       \* the status the /readyz request was answered with (0: not yet)
    lastOutcome,        \* the outcome of the most recently completed attempt
    slotP,              \* SlotSpec: the primary count of the plan
    issued,             \* SlotSpec: the slot ranges the members issued
    midRun,             \* whether a goroutine waiting in h.mu.Lock() found h.mu held
    planN,              \* PlanSpec: the declared member count
    roles,              \* PlanSpec: the role each member took
    parseIn,            \* ParseSpec: the text given to InfoFromString
    parseOut            \* ParseSpec: what InfoFromString returned

vars == <<ourIndex, ctxDone, proc, clusterConfigured, mu, pc, ev, ss, addr,
          primaryCount, clusterInfo, peerIndex, err, log, store, rpc,
          readyzStatus, lastOutcome, slotP, issued, midRun, planN, roles,
          parseIn, parseOut>>

handlerVars == <<clusterConfigured, mu, lastOutcome>>
attemptVars == <<ss, addr, primaryCount, clusterInfo, peerIndex, err, log>>
envVars == <<ourIndex, ctxDone, proc, store>>
healthVars == <<rpc, readyzStatus>>
slotVars == <<slotP, issued>>
planVars == <<planN, roles>>
parseVars == <<parseIn, parseOut>>

\* ------------------------------------------------------------------ events
\* A *int32 is the set of what it points to: {} is the nil pointer.
NilPtr == {}
Ptr(n) == {n}
Deref(p) == CHOOSE n \in p : TRUE

Counts(maxTotal) == -1 .. maxTotal

Objects(maxTotal) ==
    {[type |-> "other", replicas |-> NilPtr],
     [type |-> "StatefulSet", replicas |-> NilPtr]}
    \cup {[type |-> "StatefulSet", replicas |-> Ptr(n)] : n \in Counts(maxTotal)}

NoObject == [type |-> "none", replicas |-> NilPtr]
NoEvent == [kind |-> "none", old |-> NoObject, new |-> NoObject]

Events(maxTotal) ==
    {[kind |-> "add", old |-> NoObject, new |-> o] : o \in Objects(maxTotal)}
    \cup {[kind |-> "update", old |-> o, new |-> n] :
              o \in Objects(maxTotal), n \in Objects(maxTotal)}
    \cup {[kind |-> "delete", old |-> NoObject, new |-> NoObject]}

\* ------------------------------------------------------------- environment
LocalAddr == -1
NoAddr == LocalAddr - 1
NoRange == <<>>

Call(op, a, b, ok) == [op |-> op, a |-> a, b |-> b, ok |-> ok]

\* The replies to CLUSTER INFO the model draws from.
InfoFresh ==
    <<"cluster_state", ":", "fail", CR, NL,
      "cluster_slots_assigned", ":", "0", CR, NL,
      "cluster_current_epoch", ":", "0", CR, NL>>
InfoAssigned ==
    <<"cluster_state", ":", "ok", CR, NL,
      "cluster_slots_assigned", ":", "1", "6", "3", "8", "4", CR, NL,
      "cluster_current_epoch", ":", "3", CR, NL>>
InfoNoSlotsField ==
    <<"cluster_state", ":", "ok", NL,
      "cluster_current_epoch", ":", "1", NL>>
InfoBadSlotsValue ==
    <<"cluster_slots_assigned", ":", "1", "x", NL,
      "cluster_current_epoch", ":", "-", "1", NL>>
InfoHugeSlotsValue ==
    <<"cluster_state", ":", "ok", NL,
      "cluster_slots_assigned", ":",
          "4", "2", "9", "4", "9", "6", "7", "2", "9", "7", NL>>
InfoMalformed == <<"ERR", ":", "a", ":", "b", NL, "unknown">>
InfoEmpty == <<>>

InfoTexts == {InfoFresh, InfoAssigned, InfoNoSlotsField, InfoBadSlotsValue,
              InfoHugeSlotsValue, InfoMalformed, InfoEmpty}

\* A store that owns slots does not report that none is assigned.
InfoReplies(st) ==
    {txt \in InfoTexts :
        st.slots # NoRange => SlotsAssigned(InfoFromString(txt).info) # 0}

\* ----------------------------------------------------------------- Init
InitThreads ==
    /\ pc = [t \in Threads |-> "idle"]
    /\ ev = [t \in Threads |-> NoEvent]
    /\ ss = [t \in Threads |-> NilPtr]
    /\ addr = [t \in Threads |-> NoAddr]
    /\ primaryCount = [t \in Threads |-> 0]
    /\ clusterInfo = [t \in Threads |-> NilInfo]
    /\ peerIndex = [t \in Threads |-> 0]
    /\ err = [t \in Threads |-> "nil"]
    /\ log = [t \in Threads |-> <<>>]
    /\ midRun = [t \in Threads |-> FALSE]

Init ==
    /\ ourIndex \in 0 .. MaxIndex
    /\ ctxDone = FALSE
    /\ proc = "running"
    /\ clusterConfigured = FALSE
    /\ mu = NoThread
    /\ InitThreads
    /\ store = [slots |-> NoRange, replicaOf |-> NoAddr]
    /\ rpc = "idle"
    /\ readyzStatus = 0
    /\ lastOutcome = "none"
    /\ slotP = 0
    /\ issued = {}
    /\ planN = 0
    /\ roles = {}
    /\ parseIn = <<>>
    /\ parseOut = NotParsed

\* ------------------------------------------------- the event handler
Logged(t, calls) == log' = [log EXCEPT ![t] = log[t] \o calls]

\* The handler returns to the informer.
HandlerReturn(t) ==
    /\ pc' = [pc EXCEPT ![t] = "idle"]
    /\ ev' = [ev EXCEPT ![t] = NoEvent]
    /\ UNCHANGED <<handlerVars, attemptVars, envVars, healthVars, slotVars, planVars,
                   parseVars, midRun>>

\* h.updater(ss): the call, up to its wait for h.mu.
CallUpdater(t, obj) ==
    /\ pc' = [pc EXCEPT ![t] = "Lock"]
    /\ ss' = [ss EXCEPT ![t] = obj.replicas]
    /\ midRun' = [midRun EXCEPT ![t] = mu # NoThread]
    /\ UNCHANGED <<handlerVars, ev, addr, primaryCount, clusterInfo, peerIndex,
                   err, log, envVars, healthVars, slotVars, planVars, parseVars>>

\* A nil pointer dereference: the runtime panics and the process dies.
Panic(t) ==
    /\ proc' = "panicked"
    /\ UNCHANGED <<ourIndex, ctxDone, store, pc, ev, handlerVars, attemptVars,
                   healthVars, slotVars, planVars,
                   parseVars, midRun>>

OnAddBody(t, e) ==
    IF e.new.type # "StatefulSet"
    THEN HandlerReturn(t)
    ELSE CallUpdater(t, e.new)

\* Mutant: every update of a StatefulSet reconfigures, the counts not compared.
OnUpdateBodyNoCompare(t, e) ==
    LET oldSS == e.old
        newSS == e.new
    IN  IF oldSS.type # "StatefulSet" THEN HandlerReturn(t)
        ELSE IF newSS.type # "StatefulSet" THEN HandlerReturn(t)
        ELSE IF oldSS.replicas = NilPtr \/ newSS.replicas = NilPtr THEN Panic(t)
        ELSE CallUpdater(t, newSS)

OnUpdateBody(t, e) ==
    LET oldSS == e.old
        newSS == e.new
    IN  IF oldSS.type # "StatefulSet" THEN HandlerReturn(t)
        ELSE IF newSS.type # "StatefulSet" THEN HandlerReturn(t)
        ELSE IF oldSS.replicas = NilPtr \/ newSS.replicas = NilPtr THEN Panic(t)
        ELSE IF Deref(oldSS.replicas) = Deref(newSS.replicas) THEN HandlerReturn(t)
        ELSE CallUpdater(t, newSS)

OnDeleteBody(t, e) == HandlerReturn(t)

\* The informer calls a handler on a free goroutine; the handler runs up to
\* its return or to its wait for h.mu (it touches nothing shared before).
Dispatch(t, e) ==
    /\ proc = "running"
    /\ pc[t] = "idle"
    /\ CASE e.kind = "add" -> OnAddBody(t, e)
         [] e.kind = "update" -> OnUpdateBody(t, e)
         [] e.kind = "delete" -> OnDeleteBody(t, e)

\* The same in two steps, the event kept while it is handled: the informer's
\* call, then the handler.
Receive(t, e) ==
    /\ proc = "running"
    /\ pc[t] = "idle"
    /\ pc' = [pc EXCEPT ![t] = "handle"]
    /\ ev' = [ev EXCEPT ![t] = e]
    /\ UNCHANGED <<handlerVars, attemptVars, envVars, healthVars, slotVars, planVars,
                   parseVars, midRun>>

OnAdd(t) ==
    /\ proc = "running"
    /\ pc[t] = "handle"
    /\ ev[t].kind = "add"
    /\ OnAddBody(t, ev[t])

OnUpdate(t) ==
    /\ proc = "running"
    /\ pc[t] = "handle"
    /\ ev[t].kind = "update"
    /\ OnUpdateBody(t, ev[t])

OnDelete(t) ==
    /\ proc = "running"
    /\ pc[t] = "handle"
    /\ ev[t].kind = "delete"
    /\ OnDeleteBody(t, ev[t])

\* ------------------------------------------------------------ the updater
\* Mutant: the updater takes no lock.
CanLockNoMutex == TRUE

\* h.mu.Lock() returns: no writer and no reader holds the lock.
CanLock == mu = NoThread /\ rpc # "rlocked"

\* Mutant: a goroutine that found the lock held never gets it.
UpdaterLockNotAfterWait(t) ==
    /\ proc = "running"
    /\ pc[t] = "Lock"
    /\ ~midRun[t]
    /\ CanLock
    /\ mu' = t
    /\ pc' = [pc EXCEPT ![t] = "Configure"]
    /\ ev' = [ev EXCEPT ![t] = NoEvent]
    /\ midRun' = [midRun EXCEPT ![t] = FALSE]
    /\ UNCHANGED <<clusterConfigured, lastOutcome, attemptVars, envVars,
                   healthVars, slotVars, planVars, parseVars>>

UpdaterLock(t) ==
    /\ proc = "running"
    /\ pc[t] = "Lock"
    /\ CanLock
    /\ mu' = t
    /\ pc' = [pc EXCEPT ![t] = "Configure"]
    /\ ev' = [ev EXCEPT ![t] = NoEvent]
    /\ midRun' = [midRun EXCEPT ![t] = FALSE]
    /\ UNCHANGED <<clusterConfigured, lastOutcome, attemptVars, envVars,
                   healthVars, slotVars, planVars, parseVars>>

\* Configure returns e to the updater.
Return(t, e) ==
    /\ pc' = [pc EXCEPT ![t] = "updaterReturn"]
    /\ err' = [err EXCEPT ![t] = e]

\* Mutant: the error branch does not clear the flag.
UpdaterFlagLatched(e) == IF e = "nil" THEN TRUE ELSE clusterConfigured

\* The value the updater stores in clusterConfigured for Configure's error.
UpdaterFlag(e) == e = "nil"

\* The updater writes the flag and returns; the deferred Unlock runs.
UpdaterReturn(t) ==
    /\ proc = "running"
    /\ pc[t] = "updaterReturn"
    /\ clusterConfigured' = UpdaterFlag(err[t])
    /\ lastOutcome' = IF err[t] = "nil" THEN "ok" ELSE "fail"
    /\ mu' = NoThread
    /\ pc' = [pc EXCEPT ![t] = "idle"]
    /\ ss' = [ss EXCEPT ![t] = NilPtr]
    /\ addr' = [addr EXCEPT ![t] = NoAddr]
    /\ primaryCount' = [primaryCount EXCEPT ![t] = 0]
    /\ clusterInfo' = [clusterInfo EXCEPT ![t] = NilInfo]
    /\ peerIndex' = [peerIndex EXCEPT ![t] = 0]
    /\ err' = [err EXCEPT ![t] = "nil"]
    /\ log' = [log EXCEPT ![t] = <<>>]
    /\ UNCHANGED <<ev, envVars, healthVars, slotVars, planVars, parseVars, midRun>>

\* -------------------------------------------------------------- Configure
\* Mutant: Configure does not wait for the local store.
ConfigureStartNoWait(t) ==
    /\ proc = "running"
    /\ pc[t] = "Configure"
    /\ IF ss[t] = NilPtr
       THEN /\ Return(t, "noReplicaCount")
            /\ UNCHANGED addr
       ELSE /\ pc' = [pc EXCEPT ![t] = "EnsureClusterInitialized"]
            /\ addr' = [addr EXCEPT ![t] = LocalAddr]
            /\ UNCHANGED err
    /\ UNCHANGED <<handlerVars, ev, ss, primaryCount, clusterInfo, peerIndex,
                   log, envVars, healthVars, slotVars, planVars, parseVars,
                   midRun>>

ConfigureStart(t) ==
    /\ proc = "running"
    /\ pc[t] = "Configure"
    /\ IF ss[t] = NilPtr
       THEN /\ Return(t, "noReplicaCount")
            /\ UNCHANGED addr
       ELSE /\ pc' = [pc EXCEPT ![t] = "WaitPing"]
            /\ addr' = [addr EXCEPT ![t] = LocalAddr]
            /\ UNCHANGED err
    /\ UNCHANGED <<handlerVars, ev, ss, primaryCount, clusterInfo, peerIndex,
                   log, envVars, healthVars, slotVars, planVars,
                   parseVars, midRun>>

\* WaitPing: valkey.NewClient and the PING.  A probe that fails goes to the
\* select; one that succeeds returns the client to the caller.  The log keeps
\* the successful probe only (the failed ones are unbounded in number).
\* Mutant: the client is returned whether or not the PING succeeded.
WaitPingProbeNoCheck(t) ==
    /\ proc = "running"
    /\ pc[t] = "WaitPing"
    /\ \E ok \in BOOLEAN :
          /\ Logged(t, IF ok THEN <<Call("PING", addr[t], 0, TRUE)>> ELSE <<>>)
          /\ pc' = [pc EXCEPT ![t] =
                       IF addr[t] = LocalAddr
                       THEN "EnsureClusterInitialized"
                       ELSE "ClusterReplicate"]
    /\ UNCHANGED <<handlerVars, ev, ss, addr, primaryCount, clusterInfo,
                   peerIndex, err, envVars, healthVars, slotVars, planVars,
                   parseVars, midRun>>

WaitPingProbe(t) ==
    /\ proc = "running"
    /\ pc[t] = "WaitPing"
    /\ \E ok \in BOOLEAN :
          /\ Logged(t, IF ok THEN <<Call("PING", addr[t], 0, TRUE)>> ELSE <<>>)
          /\ IF ok
             THEN pc' = [pc EXCEPT ![t] =
                            IF addr[t] = LocalAddr
                            THEN "EnsureClusterInitialized"
                            ELSE "ClusterReplicate"]
             ELSE pc' = [pc EXCEPT ![t] = "WaitPingSelect"]
    /\ UNCHANGED <<handlerVars, ev, ss, addr, primaryCount, clusterInfo,
                   peerIndex, err, envVars, healthVars, slotVars, planVars,
                   parseVars, midRun>>

\* The select's case <-ctx.Done(): WaitPing returns ctx.Err().
WaitPingCtxDone(t) ==
    /\ proc = "running"
    /\ pc[t] = "WaitPingSelect"
    /\ ctxDone
    /\ Return(t, IF addr[t] = LocalAddr THEN "waitLocal" ELSE "waitPrimary")
    /\ UNCHANGED <<handlerVars, ev, ss, addr, primaryCount, clusterInfo,
                   peerIndex, log, envVars, healthVars, slotVars, planVars,
                   parseVars, midRun>>

\* Mutant: the wait does not race the context, the interval always runs out.
TimerCaseAlways == TRUE

\* The select's case <-time.After(PingCheckInterval) is taken when the timer
\* fires while the context is not done.
TimerCase == ~ctxDone

WaitPingTimer(t) ==
    /\ proc = "running"
    /\ pc[t] = "WaitPingSelect"
    /\ TimerCase
    /\ pc' = [pc EXCEPT ![t] = "WaitPing"]
    /\ UNCHANGED <<handlerVars, ev, attemptVars, envVars, healthVars, slotVars, planVars,
                   parseVars, midRun>>

\* Mutant: the member whose index equals the primary count is a primary too.
IsPrimaryInclusive(idx, primaryCnt) == idx <= primaryCnt

\* The role switch of EnsureClusterInitialized.
IsPrimary(idx, primaryCnt) == idx < primaryCnt

EnsureClusterInitialized(t) ==
    /\ proc = "running"
    /\ pc[t] = "EnsureClusterInitialized"
    /\ LET p == primariesAndReplicas(Deref(ss[t])).primaries
       IN  /\ primaryCount' = [primaryCount EXCEPT ![t] = p]
           /\ pc' = [pc EXCEPT ![t] =
                        IF IsPrimary(ourIndex, p) THEN "ClusterInfo" ELSE "nodeIP"]
    /\ UNCHANGED <<handlerVars, ev, ss, addr, clusterInfo, peerIndex, err, log,
                   envVars, healthVars, slotVars, planVars,
                   parseVars, midRun>>

\* --------------------------------------------------- ConfigurePrimaryNode
\* CLUSTER INFO and InfoFromReader.
ClusterInfoStep(t) ==
    /\ proc = "running"
    /\ pc[t] = "ClusterInfo"
    /\ \/ /\ Logged(t, <<Call("CLUSTER INFO", LocalAddr, 0, FALSE)>>)
          /\ Return(t, "clusterInfo")
          /\ UNCHANGED clusterInfo
       \/ \E txt \in InfoReplies(store) :
             LET r == InfoFromString(txt)
             IN  /\ Logged(t, <<Call("CLUSTER INFO", LocalAddr, 0, TRUE)>>)
                 /\ IF r.err
                    THEN /\ Return(t, "parseInfo")
                         /\ UNCHANGED clusterInfo
                    ELSE /\ clusterInfo' = [clusterInfo EXCEPT ![t] = r.info]
                         /\ pc' = [pc EXCEPT ![t] = "Epoch"]
                         /\ UNCHANGED err
    /\ UNCHANGED <<handlerVars, ev, ss, addr, primaryCount, peerIndex,
                   envVars, healthVars, slotVars, planVars,
                   parseVars, midRun>>

\* "Ensure the epoch is set": the commands the block sends to the store.  Both
\* branches only write to the process log.
EpochCommands(ci, idx) == <<>>

EpochStep(t) ==
    /\ proc = "running"
    /\ pc[t] = "Epoch"
    /\ Logged(t, EpochCommands(clusterInfo[t], ourIndex))
    /\ pc' = [pc EXCEPT ![t] = "Slots"]
    /\ UNCHANGED <<handlerVars, ev, ss, addr, primaryCount, clusterInfo,
                   peerIndex, err, envVars, healthVars, slotVars, planVars,
                   parseVars, midRun>>

\* Mutant: the slot block is always skipped.
SlotsAlwaysConfigured(ci) == TRUE

\* Mutant: any slot count but zero, the sentinel included, skips the slot block.
SlotsConfiguredNonZero(ci) == SlotsAssigned(ci) # 0

\* Mutant: the slot block does not look at the status.
SlotsNeverConfigured(ci) == FALSE

\* "Ensure slots are configured": whether the block leaves the slots alone.
SlotsConfigured(ci) == SlotsAssigned(ci) > 0

\* Mutant: the slot command's error is dropped.
SlotsErrIgnored(ok) == "nil"

\* The error ConfigurePrimaryNode returns for the slot command's result.
SlotsErr(ok) == IF ok THEN "nil" ELSE "addSlots"

SlotsStep(t) ==
    /\ proc = "running"
    /\ pc[t] = "Slots"
    /\ IF SlotsConfigured(clusterInfo[t])
       THEN /\ pc' = [pc EXCEPT ![t] = "Meet"]
            /\ peerIndex' = [peerIndex EXCEPT ![t] = 0]
            /\ UNCHANGED <<err, log, store>>
       ELSE LET first == firstSlot(ourIndex, primaryCount[t])
                last  == lastSlot(ourIndex, primaryCount[t])
            IN  \E ok \in BOOLEAN :
                   /\ Logged(t, <<Call("CLUSTER ADDSLOTSRANGE", first, last, ok)>>)
                   /\ store' = IF ok
                               THEN [store EXCEPT !.slots = <<first, last>>]
                               ELSE store
                   /\ IF SlotsErr(ok) = "nil"
                      THEN /\ pc' = [pc EXCEPT ![t] = "Meet"]
                           /\ peerIndex' = [peerIndex EXCEPT ![t] = 0]
                           /\ UNCHANGED err
                      ELSE /\ Return(t, SlotsErr(ok))
                           /\ UNCHANGED peerIndex
    /\ UNCHANGED <<handlerVars, ev, ss, addr, primaryCount, clusterInfo,
                   ourIndex, ctxDone, proc, healthVars, slotVars, planVars,
                   parseVars, midRun>>

\* One iteration of "for peerIndex := range primaryCount": the calls it makes.
\* resolved: nodeIP(peerIndex) found an address; met: CLUSTER MEET succeeded.
MeetCalls(idx, peer, resolved, met) ==
    IF peer = idx THEN <<>>
    ELSE IF ~resolved THEN <<Call("LookupIP", peer, 0, FALSE)>>
    ELSE <<Call("LookupIP", peer, 0, TRUE), Call("CLUSTER MEET", peer, 0, met)>>

\* Mutant: a peer that cannot be met ends the loop.
MeetNextAbort(peer, primaryCnt, resolved, met) ==
    IF resolved /\ met THEN peer + 1 ELSE primaryCnt

\* The loop's next index after an iteration.
MeetNext(peer, primaryCnt, resolved, met) == peer + 1

MeetStep(t) ==
    /\ proc = "running"
    /\ pc[t] = "Meet"
    /\ peerIndex[t] < primaryCount[t]
    /\ \E resolved \in BOOLEAN, met \in BOOLEAN :
          /\ (peerIndex[t] = ourIndex => resolved /\ met)
          /\ (~resolved => met)
          /\ Logged(t, MeetCalls(ourIndex, peerIndex[t], resolved, met))
          /\ peerIndex' = [peerIndex EXCEPT ![t] =
                              MeetNext(peerIndex[t], primaryCount[t], resolved, met)]
    /\ UNCHANGED <<handlerVars, pc, ev, ss, addr, primaryCount, clusterInfo,
                   err, envVars, healthVars, slotVars, planVars,
                   parseVars, midRun>>

\* The loop is over: ConfigurePrimaryNode returns nil.
MeetDone(t) ==
    /\ proc = "running"
    /\ pc[t] = "Meet"
    /\ peerIndex[t] >= primaryCount[t]
    /\ Return(t, "nil")
    /\ UNCHANGED <<handlerVars, ev, ss, addr, primaryCount, clusterInfo,
                   peerIndex, log, envVars, healthVars, slotVars, planVars,
                   parseVars, midRun>>

\* --------------------------------------------------- ConfigureReplicaNode
\* Mutant: the replicas are attached in blocks, not round-robin.
ourPrimaryDiv(idx, primaryCnt) == GoDiv(idx, primaryCnt)

\* Mutant: every replica is attached to the first primary.
ourPrimaryFirst(idx, primaryCnt) == 0

ourPrimary(idx, primaryCnt) == GoMod(idx, primaryCnt)

NodeIPStep(t) ==
    /\ proc = "running"
    /\ pc[t] = "nodeIP"
    /\ LET prim == ourPrimary(ourIndex, primaryCount[t])
       IN  \E resolved \in BOOLEAN :
              /\ Logged(t, <<Call("LookupIP", prim, 0, resolved)>>)
              /\ IF resolved
                 THEN /\ addr' = [addr EXCEPT ![t] = prim]
                      /\ pc' = [pc EXCEPT ![t] = "WaitPing"]
                      /\ UNCHANGED err
                 ELSE /\ Return(t, "primaryIP")
                      /\ UNCHANGED addr
    /\ UNCHANGED <<handlerVars, ev, ss, primaryCount, clusterInfo, peerIndex,
                   envVars, healthVars, slotVars, planVars,
                   parseVars, midRun>>

ClusterReplicateStep(t) ==
    /\ proc = "running"
    /\ pc[t] = "ClusterReplicate"
    /\ \E ok \in BOOLEAN :
          /\ Logged(t, <<Call("CLUSTER REPLICATE", addr[t], 0, ok)>>)
          /\ Return(t, IF ok THEN "nil" ELSE "replicate")
          /\ store' = IF ok THEN [store EXCEPT !.replicaOf = addr[t]] ELSE store
    /\ UNCHANGED <<handlerVars, ev, ss, addr, primaryCount, clusterInfo,
                   peerIndex, ourIndex, ctxDone, proc, healthVars, slotVars, planVars,
                   parseVars, midRun>>

\* ------------------------------------------------------ the health surface
\* ClusterConfigured: h.mu.RLock() returns while no writer holds the lock.
CanRLock == mu = NoThread

\* A /readyz request arrives and its handler takes the read lock.
ReadyzRLock ==
    /\ proc = "running"
    /\ rpc = "idle"
    /\ CanRLock
    /\ rpc' = "rlocked"
    /\ readyzStatus' = 0
    /\ UNCHANGED <<handlerVars, pc, ev, attemptVars, envVars, slotVars, planVars,
                   parseVars, midRun>>

\* The status /readyz writes for the value ClusterConfigured returned.
ReadyzStatusFor(configured) == IF configured THEN 200 ELSE 500

\* ClusterConfigured reads the flag and returns (RUnlock); /readyz answers.
ReadyzServe ==
    /\ proc = "running"
    /\ rpc = "rlocked"
    /\ readyzStatus' = ReadyzStatusFor(clusterConfigured)
    /\ rpc' = "idle"
    /\ UNCHANGED <<handlerVars, pc, ev, attemptVars, envVars, slotVars, planVars,
                   parseVars, midRun>>

\* ------------------------------------------------------------- the process
\* SIGINT or SIGTERM: signal.NotifyContext cancels ctx.  (main ends the process
\* once the informer has returned: a behaviour may stop at any state.)
Cancel ==
    /\ proc = "running"
    /\ ~ctxDone
    /\ ctxDone' = TRUE
    /\ UNCHANGED <<ourIndex, proc, store, handlerVars, pc, ev, attemptVars,
                   healthVars, slotVars, planVars,
                   parseVars, midRun>>

\* ---------------------------------------------------------- specification
Step(t) ==
    \/ UpdaterLock(t)
    \/ ConfigureStart(t)
    \/ WaitPingProbe(t)
    \/ WaitPingCtxDone(t)
    \/ WaitPingTimer(t)
    \/ EnsureClusterInitialized(t)
    \/ ClusterInfoStep(t)
    \/ EpochStep(t)
    \/ SlotsStep(t)
    \/ MeetStep(t)
    \/ MeetDone(t)
    \/ NodeIPStep(t)
    \/ ClusterReplicateStep(t)
    \/ UpdaterReturn(t)

Environment ==
    \/ ReadyzRLock
    \/ ReadyzServe
    \/ Cancel

\* Concurrent deliveries: every goroutine of Threads may be inside a handler.
Next ==
    \/ \E t \in Threads : \E e \in Events(MaxTotal) : Dispatch(t, e)
    \/ \E t \in Threads : Step(t)
    \/ Environment

Spec == Init /\ [][Next]_vars

\* The informer's own delivery: one goroutine calls the handlers in turn.
Informer == "t1"

SeqNext ==
    \/ \E e \in Events(MaxTotalSeq) : Receive(Informer, e)
    \/ OnAdd(Informer)
    \/ OnUpdate(Informer)
    \/ OnDelete(Informer)
    \/ Step(Informer)
    \/ Environment

\* The same start with the member indices of SeqSpec.
SeqInit ==
    /\ ourIndex \in 0 .. MaxIndexSeq
    /\ ctxDone = FALSE
    /\ proc = "running"
    /\ clusterConfigured = FALSE
    /\ mu = NoThread
    /\ InitThreads
    /\ store = [slots |-> NoRange, replicaOf |-> NoAddr]
    /\ rpc = "idle"
    /\ readyzStatus = 0
    /\ lastOutcome = "none"
    /\ slotP = 0
    /\ issued = {}
    /\ planN = 0
    /\ roles = {}
    /\ parseIn = <<>>
    /\ parseOut = NotParsed

SeqSpec == SeqInit /\ [][SeqNext]_vars

\* The same with the progress the runtime gives: a goroutine inside the updater
\* that can take a step (a call returns, the timer of the select fires, the
\* lock is free) takes one.
LiveSpec == SeqInit /\ [][SeqNext]_vars /\ WF_vars(Step(Informer))

\* ------------------------------------------------------------ the slot plan
\* The members 0 .. slotP-1 of one plan, each on a store of its own that
\* reports no slot assigned, run the slot block of ConfigurePrimaryNode.
SlotInit ==
    /\ ourIndex = 0
    /\ ctxDone = FALSE
    /\ proc = "running"
    /\ clusterConfigured = FALSE
    /\ mu = NoThread
    /\ InitThreads
    /\ store = [slots |-> NoRange, replicaOf |-> NoAddr]
    /\ rpc = "idle"
    /\ readyzStatus = 0
    /\ lastOutcome = "none"
    /\ slotP \in 1 .. MaxPrimaries
    /\ issued = {}
    /\ planN = 0
    /\ roles = {}
    /\ parseIn = <<>>
    /\ parseOut = NotParsed

PrimaryAssignsSlots(i) ==
    /\ i < slotP
    /\ \A r \in issued : r.member # i
    /\ ~SlotsConfigured(InfoFromString(InfoFresh).info)
    /\ issued' = issued \cup {[member |-> i,
                               first |-> firstSlot(i, slotP),
                               last |-> lastSlot(i, slotP)]}
    /\ UNCHANGED <<slotP, handlerVars, pc, ev, attemptVars, envVars, healthVars,
                   planVars, parseVars, midRun>>

SlotNext == \E i \in 0 .. MaxPrimaries - 1 : PrimaryAssignsSlots(i)

SlotSpec == SlotInit /\ [][SlotNext]_vars

\* ------------------------------------------------------------ the role plan
\* The members 0 .. planN-1 of one StatefulSet, each its own process given the
\* same declared count planN, run Configure's planning: primariesAndReplicas,
\* the role switch of EnsureClusterInitialized and, on the replica path, the
\* choice of ConfigureReplicaNode.
PlanInit ==
    /\ ourIndex = 0
    /\ ctxDone = FALSE
    /\ proc = "running"
    /\ clusterConfigured = FALSE
    /\ mu = NoThread
    /\ InitThreads
    /\ store = [slots |-> NoRange, replicaOf |-> NoAddr]
    /\ rpc = "idle"
    /\ readyzStatus = 0
    /\ lastOutcome = "none"
    /\ slotP = 0
    /\ issued = {}
    /\ planN \in 1 .. MaxPlanTotal
    /\ roles = {}
    /\ parseIn = <<>>
    /\ parseOut = NotParsed

MemberPlans(i) ==
    /\ i < planN
    /\ \A r \in roles : r.member # i
    /\ LET plan == primariesAndReplicas(planN)
           p == plan.primaries
       IN  roles' = roles \cup
              {[member |-> i,
                primaries |-> p,
                replicas |-> plan.replicas,
                role |-> IF IsPrimary(i, p) THEN "primary" ELSE "replica",
                primary |-> IF IsPrimary(i, p) THEN NoAddr ELSE ourPrimary(i, p)]}
    /\ UNCHANGED <<planN, handlerVars, pc, ev, attemptVars, envVars, healthVars,
                   slotVars, parseVars, midRun>>

PlanNext == \E i \in 0 .. MaxPlanTotal - 1 : MemberPlans(i)

PlanSpec == PlanInit /\ [][PlanNext]_vars

\* ---------------------------------------------------------- the info reader
\* InfoFromString applied to every text of at most MaxTextLen tokens.
TextTokens == {"k", "v", Colon, NL, CR}

Texts == UNION {[1 .. n -> TextTokens] : n \in 0 .. MaxTextLen}

ParseInit ==
    /\ ourIndex = 0
    /\ ctxDone = FALSE
    /\ proc = "running"
    /\ clusterConfigured = FALSE
    /\ mu = NoThread
    /\ InitThreads
    /\ store = [slots |-> NoRange, replicaOf |-> NoAddr]
    /\ rpc = "idle"
    /\ readyzStatus = 0
    /\ lastOutcome = "none"
    /\ slotP = 0
    /\ issued = {}
    /\ planN = 0
    /\ roles = {}
    /\ parseIn \in Texts
    /\ parseOut = NotParsed

Parse ==
    /\ ~parseOut.done
    /\ parseOut' = Parsed(InfoFromString(parseIn))
    /\ UNCHANGED <<parseIn, handlerVars, pc, ev, attemptVars, envVars, healthVars,
                   slotVars, planVars, midRun>>

ParseNext == Parse

ParseSpec == ParseInit /\ [][ParseNext]_vars

\* ================================================================ properties
SS == "StatefulSet"

\* The goroutine is inside the updater's critical section.
RunPcs == {"Configure", "WaitPing", "WaitPingSelect", "EnsureClusterInitialized",
           "ClusterInfo", "Epoch", "Slots", "Meet", "nodeIP", "ClusterReplicate",
           "updaterReturn"}
Running(t) == pc[t] \in RunPcs

\* The positions of the calls of one kind in the running attempt's log.
CallsOf(t, op) == {i \in DOMAIN log[t] : log[t][i].op = op}
CallsTo(t, op, a) == {i \in CallsOf(t, op) : log[t][i].a = a}
Succeeded(t, op) == \E i \in CallsOf(t, op) : log[t][i].ok
Failed(t, op) == \E i \in CallsOf(t, op) : ~log[t][i].ok

\* The attempt is on the primary path and past its status fetch and parse.
HasInfo(t) == Running(t) /\ ~clusterInfo[t].nil

\* The updater is about to return: the attempt has ended with err[t].
AttemptEnds(t) == pc[t] = "updaterReturn" /\ pc'[t] = "idle"

\* C1: clusterConfigured is the outcome of the most recently completed attempt
\* (false before any attempt, true after a success, false again after a later
\* failure, true again after a later success), and /readyz answers 200 exactly
\* when the flag it reads is true.
C1_FlagIsLastOutcome ==
    /\ [](clusterConfigured = (lastOutcome = "ok"))
    /\ [][rpc = "rlocked" /\ rpc' = "idle"
            => (readyzStatus' = 200 <=> clusterConfigured)]_vars

\* /readyz has answered 200 and a later attempt failed: the flag is false again.
C1_Witness ==
    /\ readyzStatus = 200
    /\ lastOutcome = "fail"
    /\ ~clusterConfigured

\* C2: at most one goroutine is inside a Configure run, it holds the write
\* lock, only it adds calls to the stores, and only it writes the flag.
C2_OneRunAtATime ==
    /\ [](\A t \in Threads : Running(t) => mu = t)
    /\ [](Cardinality({t \in Threads : Running(t)}) <= 1)
    /\ [][\A t \in Threads : log'[t] # log[t] => mu = t]_vars
    /\ [][clusterConfigured' # clusterConfigured
            => \E t \in Threads : mu = t /\ AttemptEnds(t)]_vars

\* A second delivery waits for the lock while a run is sending commands.
C2_Witness ==
    \E t, u \in Threads :
        /\ t # u
        /\ pc[t] = "Meet"
        /\ log[t] # <<>>
        /\ pc[u] = "Lock"

\* C3: an attempt whose status reports slots-assigned > 0 issues no
\* slot-assignment command; and once the store owns slots, an attempt whose
\* status carries a readable slots-assigned field issues none.
C3_NoSlotCommandWhenAssigned ==
    /\ [](\A t \in Threads :
            HasInfo(t) /\ SlotsAssigned(clusterInfo[t]) > 0
                => CallsOf(t, "CLUSTER ADDSLOTSRANGE") = {})
    /\ [][\A t \in Threads :
            /\ pc[t] = "Slots"
            /\ store.slots # NoRange
            /\ SlotsAssigned(clusterInfo[t]) # -1
            => log'[t] = log[t]]_vars

\* A re-run after a successful slot assignment has ended without the command.
C3_Witness ==
    \E t \in Threads :
        /\ pc[t] = "updaterReturn"
        /\ err[t] = "nil"
        /\ store.slots # NoRange
        /\ HasInfo(t)
        /\ SlotsAssigned(clusterInfo[t]) > 0
        /\ CallsOf(t, "CLUSTER ADDSLOTSRANGE") = {}

\* C4: the slot ranges two distinct primaries of one plan issue have no slot in
\* common.
C4_RangesDisjoint ==
    \A r, q \in issued :
        r.member # q.member => (r.last < q.first \/ q.last < r.first)

AllIssued == \A i \in 0 .. slotP - 1 : \E r \in issued : r.member = i

\* C5: the ranges the primaries 0 .. P-1 issue cover every slot of
\* 0 .. TotalSlotCount-1, and no range reaches outside it.
C5_RangesCoverSlotSpace ==
    /\ \A r \in issued : 0 <= r.first /\ r.first <= r.last /\ r.last <= TotalSlotCount - 1
    /\ AllIssued =>
          \A slot \in 0 .. TotalSlotCount - 1 :
              \E r \in issued : r.first <= slot /\ slot <= r.last

\* Three primaries (16384 is not divisible by 3) have all issued their range.
C5_Witness == slotP = 3 /\ AllIssued

\* C6: past the epoch block, an attempt whose status reports a local epoch
\* that is not > 0 has sent the epoch-setting command with memberIndex + 1, and
\* one whose status reports an epoch > 0 has sent none.
C6_EpochCommandIssued ==
    \A t \in Threads :
        HasInfo(t) /\ pc[t] \in {"Slots", "Meet", "updaterReturn"} =>
            IF LocalEpoch(clusterInfo[t]) > 0
            THEN CallsOf(t, "CLUSTER SET-CONFIG-EPOCH") = {}
            ELSE CallsTo(t, "CLUSTER SET-CONFIG-EPOCH", ourIndex + 1) # {}

\* The events C7 speaks of: an update of two StatefulSets declares both counts.
CountsDeclared(e) ==
    (e.kind = "update" /\ e.old.type = SS /\ e.new.type = SS)
        => (e.old.replicas # NilPtr /\ e.new.replicas # NilPtr)

\* The events C7 says start an attempt.
Triggers(e) ==
    \/ e.kind = "add" /\ e.new.type = SS
    \/ /\ e.kind = "update"
       /\ e.old.type = SS
       /\ e.new.type = SS
       /\ e.old.replicas # e.new.replicas

\* C7: the handler calls the updater, once and with the new object, for an add
\* of a StatefulSet and for an update whose counts differ; for every other
\* event it returns with the flag, the lock, the store and the log unchanged.
C7_EventsThatTrigger ==
    [][\A t \in Threads :
          (pc[t] = "handle" /\ pc'[t] # "handle" /\ CountsDeclared(ev[t])) =>
              IF Triggers(ev[t])
              THEN pc'[t] = "Lock" /\ ss'[t] = ev[t].new.replicas
              ELSE /\ pc'[t] = "idle"
                   /\ UNCHANGED <<clusterConfigured, mu, store, log, proc>>]_vars

\* After a successful attempt, an update with a new count waits for the lock.
C7_Witness ==
    \E t \in Threads :
        /\ pc[t] = "Lock"
        /\ ev[t].kind = "update"
        /\ ev[t].old.replicas # ev[t].new.replicas
        /\ clusterConfigured

\* C8: once the context is done, a WaitPing that waits between probes does
\* nothing but return the context's error: no further probe, no handle.
C8_CancelledWaitReturns ==
    [][\A t \in Threads :
          (pc[t] = "WaitPingSelect" /\ ctxDone /\ pc'[t] # pc[t]) =>
              /\ pc'[t] = "updaterReturn"
              /\ err'[t] = IF addr[t] = LocalAddr THEN "waitLocal" ELSE "waitPrimary"
              /\ log'[t] = log[t]]_vars

\* A replica's wait for its primary was cancelled.
C8_Witness ==
    \E t \in Threads :
        /\ pc[t] = "updaterReturn"
        /\ err[t] = "waitPrimary"
        /\ ctxDone

\* The primary path is past its status fetch and slot setup.
SlotSetupDone(t) ==
    /\ HasInfo(t)
    /\ Succeeded(t, "CLUSTER INFO")
    /\ \/ SlotsAssigned(clusterInfo[t]) > 0
       \/ Succeeded(t, "CLUSTER ADDSLOTSRANGE")

\* C9: a primary-path attempt whose status fetch and slot setup succeeded ends
\* with no error, having looked up every other primary once, sent one meet to
\* each that resolved and none to the others or to itself; the flag becomes
\* true.
C9_MeetEveryPeerOnce ==
    /\ [](\A t \in Threads :
            (pc[t] = "updaterReturn" /\ SlotSetupDone(t)) =>
                /\ err[t] = "nil"
                /\ CallsTo(t, "LookupIP", ourIndex) = {}
                /\ CallsTo(t, "CLUSTER MEET", ourIndex) = {}
                /\ \A p \in (0 .. primaryCount[t] - 1) \ {ourIndex} :
                      /\ Cardinality(CallsTo(t, "LookupIP", p)) = 1
                      /\ \A i \in CallsTo(t, "LookupIP", p) :
                            Cardinality(CallsTo(t, "CLUSTER MEET", p))
                                = IF log[t][i].ok THEN 1 ELSE 0
                /\ \A i \in CallsOf(t, "CLUSTER MEET") :
                      log[t][i].a \in 0 .. primaryCount[t] - 1)
    /\ [][\A t \in Threads :
            (AttemptEnds(t) /\ SlotSetupDone(t)) => clusterConfigured']_vars

\* Of three primaries, one peer did not resolve and the meet of the other
\* failed, and the attempt has ended.
C9_Witness ==
    \E t \in Threads :
        /\ pc[t] = "updaterReturn"
        /\ SlotSetupDone(t)
        /\ primaryCount[t] = 3
        /\ \E i \in CallsOf(t, "LookupIP") : ~log[t][i].ok
        /\ \E i \in CallsOf(t, "CLUSTER MEET") : ~log[t][i].ok

\* The calls after which the attempt must stop.
Fatal(t, c) ==
    /\ ~c.ok
    /\ \/ c.op \in {"CLUSTER INFO", "CLUSTER ADDSLOTSRANGE", "CLUSTER REPLICATE"}
       \/ c.op = "LookupIP" /\ ~IsPrimary(ourIndex, primaryCount[t])

\* C10: a failed status fetch, slot assignment, replicate command or lookup of
\* the replica's primary is the attempt's last call; after a status that does
\* not parse there is no slot or meet command, after a cancelled wait for the
\* primary no replicate command; each such attempt ends with an error, the
\* flag false and the process running.
C10_FatalErrorsAbort ==
    /\ [](\A t \in Threads :
            /\ \A i \in DOMAIN log[t] : Fatal(t, log[t][i]) => i = Len(log[t])
            /\ err[t] = "parseInfo" =>
                   /\ CallsOf(t, "CLUSTER ADDSLOTSRANGE") = {}
                   /\ CallsOf(t, "CLUSTER MEET") = {}
            /\ err[t] = "waitPrimary" => CallsOf(t, "CLUSTER REPLICATE") = {}
            /\ (pc[t] = "updaterReturn" /\ \E i \in DOMAIN log[t] : Fatal(t, log[t][i]))
                   => err[t] # "nil")
    /\ [][\A t \in Threads :
            (AttemptEnds(t) /\ err[t] # "nil")
                => ~clusterConfigured' /\ proc' = "running"]_vars

\* The slot assignment of a primary with peers to meet failed.
C10_Witness ==
    \E t \in Threads :
        /\ pc[t] = "updaterReturn"
        /\ err[t] = "addSlots"
        /\ primaryCount[t] >= 2
        /\ clusterConfigured

\* The snapshot declares no usable member count: none, zero or a negative one.
NoUsableCount(p) == p = NilPtr \/ Deref(p) <= 0

\* The commands that configure the local store.
ConfigCommands == {"CLUSTER ADDSLOTSRANGE", "CLUSTER MEET", "CLUSTER REPLICATE"}

\* The positions of an attempt that has taken a role.
OnPrimaryPath(t) == pc[t] \in {"ClusterInfo", "Epoch", "Slots", "Meet"}
OnReplicaPath(t) ==
    \/ pc[t] \in {"nodeIP", "ClusterReplicate"}
    \/ pc[t] \in {"WaitPing", "WaitPingSelect"} /\ addr[t] # LocalAddr

\* C11: an attempt whose snapshot declares no member count, zero or a negative
\* count takes no role and issues no slot assignment, meet or replicate
\* command.
C11_NoPlanWithoutPositiveCount ==
    \A t \in Threads :
        Running(t) /\ NoUsableCount(ss[t]) =>
            /\ ~OnPrimaryPath(t)
            /\ ~OnReplicaPath(t)
            /\ \A i \in DOMAIN log[t] : log[t][i].op \notin ConfigCommands

\* C12: for every total count N >= 1 the plan has primaries = max(1, N div 2)
\* and replicas = N - primaries, so primaries >= 1, replicas >= 0 and the two
\* add up to N.
C12_PlanOfCount ==
    \A r \in roles :
        planN >= 1 =>
            /\ r.primaries = (IF planN \div 2 >= 1 THEN planN \div 2 ELSE 1)
            /\ r.replicas = planN - r.primaries
            /\ r.primaries >= 1
            /\ r.replicas >= 0
            /\ r.primaries + r.replicas = planN

C12_Witness == planN = 5 /\ Cardinality(roles) = planN

\* The path an attempt has taken after its role switch, read from its position
\* and from the calls it has made: the primary path starts with CLUSTER INFO,
\* the replica path with the lookup of the primary's address.
TookPrimaryPath(t) == OnPrimaryPath(t) \/ CallsOf(t, "CLUSTER INFO") # {}
TookReplicaPath(t) ==
    \/ OnReplicaPath(t)
    \/ CallsOf(t, "CLUSTER REPLICATE") # {}
    \/ Len(log[t]) >= 2 /\ log[t][2].op = "LookupIP"

\* C13: with member index i and primary count P >= 1, an attempt that has
\* passed the role switch runs the primary path exactly when i < P and the
\* replica path exactly when i >= P; before the switch it runs neither.
C13_RoleByIndex ==
    \A t \in Threads :
        /\ primaryCount[t] # 0 =>
              /\ primaryCount[t] >= 1
              /\ TookPrimaryPath(t) <=> ourIndex < primaryCount[t]
              /\ TookReplicaPath(t) <=> ourIndex >= primaryCount[t]
        /\ primaryCount[t] = 0 => ~TookPrimaryPath(t) /\ ~TookReplicaPath(t)

C13_Witness ==
    \E t \in Threads :
        /\ pc[t] = "updaterReturn"
        /\ TookReplicaPath(t)
        /\ primaryCount[t] >= 2
        /\ ourIndex = primaryCount[t]

\* C14: a replica (index i >= P >= 1) resolves, waits for and attaches to the
\* member with index i mod P, which is a primary (in 0 .. P-1) and not the
\* replica itself.
C14_ReplicaOfIndexModP ==
    \A t \in Threads :
        TookReplicaPath(t) =>
            LET target == ourIndex % primaryCount[t]
            IN  /\ target \in 0 .. primaryCount[t] - 1
                /\ target # ourIndex
                /\ OnReplicaPath(t) /\ pc[t] # "nodeIP" => addr[t] = target
                /\ \A i \in DOMAIN log[t] :
                      \/ log[t][i].op \in {"LookupIP", "CLUSTER REPLICATE"}
                            /\ log[t][i].a = target
                      \/ log[t][i].op = "PING"
                            /\ log[t][i].a \in {LocalAddr, target}

C14_Witness ==
    \E t \in Threads :
        /\ Succeeded(t, "CLUSTER REPLICATE")
        /\ ourIndex % primaryCount[t] = 2

\* Every member of the plan has taken its role.
AllPlanned == Cardinality(roles) = planN
PlannedPrimaries == {r \in roles : r.role = "primary"}
PlannedReplicas == {r \in roles : r.role = "replica"}

\* C15: for the members 0 .. N-1 of a plan with at least one replica, there
\* are at least as many replicas as primaries and every primary is the
\* assigned primary of at least one replica.
C15_EveryPrimaryHasReplica ==
    AllPlanned /\ PlannedReplicas # {} =>
        /\ Cardinality(PlannedReplicas) >= Cardinality(PlannedPrimaries)
        /\ \A p \in PlannedPrimaries :
              \E r \in PlannedReplicas : r.primary = p.member
        /\ \A r \in PlannedReplicas :
              \E p \in PlannedPrimaries : r.primary = p.member

C15_Witness ==
    /\ AllPlanned
    /\ planN = MaxPlanTotal
    /\ Cardinality(PlannedPrimaries) >= 3

\* The lines of a text, by position: a line starts at the first token and
\* after every line feed, and runs up to the next line feed or the end of the
\* text; one carriage return before the line feed is not part of it.
LineStarts(txt) == {b \in 1 .. Len(txt) : b = 1 \/ txt[b - 1] = NL}
LineEnd(txt, b) ==
    CHOOSE e \in b - 1 .. Len(txt) :
        /\ e = Len(txt) \/ txt[e + 1] = NL
        /\ \A j \in b .. e : txt[j] # NL
LineAt(txt, b) ==
    LET e == LineEnd(txt, b)
    IN  IF e >= b /\ txt[e] = CR THEN SubSeq(txt, b, e - 1) ELSE SubSeq(txt, b, e)

\* A well-formed line has exactly one colon: the key before it, the value after.
ColonsOf(line) == {j \in DOMAIN line : line[j] = Colon}
WellFormed(line) == Cardinality(ColonsOf(line)) = 1
KeyOf(line) == SubSeq(line, 1, (CHOOSE j \in ColonsOf(line) : TRUE) - 1)
ValueOf(line) ==
    SubSeq(line, (CHOOSE j \in ColonsOf(line) : TRUE) + 1, Len(line))
WellFormedLines(txt) == {b \in LineStarts(txt) : WellFormed(LineAt(txt, b))}

\* C16: InfoFromString succeeds exactly when the text has a well-formed line;
\* on success the map's keys are exactly the keys of the well-formed lines,
\* each with the value of the (last) well-formed line carrying it, whatever
\* malformed lines stand between them; otherwise it returns an error and the
\* nil snapshot.
C16_ParseKeepsWellFormedLines ==
    parseOut.done =>
        LET wf == WellFormedLines(parseIn)
            m  == parseOut.info.m
        IN  /\ parseOut.err <=> wf = {}
            /\ parseOut.err => parseOut.info.nil
            /\ ~parseOut.err =>
                  /\ ~parseOut.info.nil
                  /\ DOMAIN m = {KeyOf(LineAt(parseIn, b)) : b \in wf}
                  /\ \A k \in DOMAIN m :
                        LET bs == {b \in wf : KeyOf(LineAt(parseIn, b)) = k}
                            last == CHOOSE b \in bs : \A c \in bs : c <= b
                        IN  m[k] = ValueOf(LineAt(parseIn, last))

C16_Witness ==
    /\ parseOut.done
    /\ ~parseOut.err
    /\ Cardinality(DOMAIN parseOut.info.m) = 2
    /\ \E b \in LineStarts(parseIn) :
          /\ ~WellFormed(LineAt(parseIn, b))
          /\ LineAt(parseIn, b) # <<>>

\* A field's text that is no 32-bit integer: no digits, a token that is no
\* decimal digit, or ten digits beyond 2147483647.
DecimalDigits == <<"0", "1", "2", "3", "4", "5", "6", "7", "8", "9">>
IsDigit(c) == \E d \in DOMAIN DecimalDigits : DecimalDigits[d] = c
DigitOf(c) == (CHOOSE d \in DOMAIN DecimalDigits : DecimalDigits[d] = c) - 1
RECURSIVE DecimalValue(_)
DecimalValue(ds) ==
    IF ds = <<>> THEN 0
    ELSE DecimalValue(SubSeq(ds, 1, Len(ds) - 1)) * 10 + DigitOf(ds[Len(ds)])
Unsigned(v) == IF v # <<>> /\ v[1] \in {"+", "-"} THEN Tail(v) ELSE v
NotInt32(v) ==
    LET ds == Unsigned(v)
    IN  \/ ds = <<>>
        \/ \E j \in DOMAIN ds : ~IsDigit(ds[j])
        \/ /\ Len(ds) = 10
           /\ LET hi == DecimalValue(SubSeq(ds, 1, 9))
                  lo == DigitOf(ds[10])
              IN  hi > Int32Max \div 10 \/ (hi = Int32Max \div 10 /\ lo > Int32Max % 10)

\* The accessor's sentinel cases for a field of a snapshot.
SentinelCase(ci, key) ==
    \/ ci.nil
    \/ key \notin DOMAIN ci.m
    \/ NotInt32(ci.m[key])

\* C17: for a field that is absent or no 32-bit integer, and for the nil
\* snapshot, the integer accessors return -1; an attempt whose slots-assigned
\* field reads as the sentinel issues the slot assignment command, and fails
\* only if that command itself fails.
C17_SentinelMeansNotConfigured ==
    \A t \in Threads :
        /\ SentinelCase(clusterInfo[t], SlotsAssignedInfoKey)
              => SlotsAssigned(clusterInfo[t]) = -1
        /\ SentinelCase(clusterInfo[t], LocalEpochInfoKey)
              => LocalEpoch(clusterInfo[t]) = -1
        /\ HasInfo(t) /\ SentinelCase(clusterInfo[t], SlotsAssignedInfoKey) =>
              /\ pc[t] \in {"Meet", "updaterReturn"}
                    => CallsOf(t, "CLUSTER ADDSLOTSRANGE") # {}
              /\ pc[t] = "updaterReturn" /\ err[t] # "nil"
                    => err[t] = "addSlots" /\ Failed(t, "CLUSTER ADDSLOTSRANGE")

C17_Witness ==
    \E t \in Threads :
        /\ HasInfo(t)
        /\ SlotsAssignedInfoKey \in DOMAIN clusterInfo[t].m
        /\ Len(clusterInfo[t].m[SlotsAssignedInfoKey]) = 10
        /\ SentinelCase(clusterInfo[t], SlotsAssignedInfoKey)
        /\ pc[t] = "updaterReturn"
        /\ err[t] = "nil"
        /\ Succeeded(t, "CLUSTER ADDSLOTSRANGE")

\* The positions of an attempt before its status fetch has returned.
BeforeInfoPcs == {"idle", "handle", "Lock", "Configure", "WaitPing",
                  "WaitPingSelect", "EnsureClusterInitialized", "ClusterInfo",
                  "nodeIP", "ClusterReplicate"}

\* C18: within one attempt the first call is the successful local PING; on
\* the primary path a successful CLUSTER INFO of this attempt precedes the
\* slot assignment and every meet, and the slot assignment precedes every
\* meet; on the replica path a successful PING of the assigned primary
\* precedes CLUSTER REPLICATE; the snapshot the decisions read is the one this
\* attempt fetched.
C18_CommandOrder ==
    \A t \in Threads :
        /\ log[t] # <<>> => log[t][1] = Call("PING", LocalAddr, 0, TRUE)
        /\ \A j \in CallsOf(t, "CLUSTER ADDSLOTSRANGE") \cup CallsOf(t, "CLUSTER MEET") :
              \E i \in CallsOf(t, "CLUSTER INFO") : i < j /\ log[t][i].ok
        /\ \A j \in CallsOf(t, "CLUSTER ADDSLOTSRANGE") :
              \A k \in CallsOf(t, "CLUSTER MEET") : j < k
        /\ \A j \in CallsOf(t, "CLUSTER REPLICATE") :
              \E i \in CallsTo(t, "PING", log[t][j].a) :
                  i < j /\ log[t][i].ok /\ log[t][j].a # LocalAddr
        /\ pc[t] \in BeforeInfoPcs => clusterInfo[t].nil
        /\ pc[t] \in {"Epoch", "Slots", "Meet"} =>
              ~clusterInfo[t].nil /\ Succeeded(t, "CLUSTER INFO")
        /\ ~clusterInfo[t].nil => Succeeded(t, "CLUSTER INFO")

C18_Witness ==
    \E t \in Threads :
        /\ pc[t] = "updaterReturn"
        /\ lastOutcome # "none"
        /\ Succeeded(t, "CLUSTER ADDSLOTSRANGE")
        /\ Cardinality(CallsOf(t, "CLUSTER MEET")) >= 2

\* C19 as claimed: a change handed to the updater while a run is in progress
\* (the goroutine found the lock held) never starts an attempt.
C19_MidRunChangeStartsNothing ==
    [][\A t \in Threads : midRun[t] => pc'[t] # "Configure"]_vars

\* C19: a change handed to the updater while a run is in progress is held at
\* the lock and not dropped: it keeps its count, starts no attempt while the
\* lock is held, and can start its own attempt as soon as the lock is free.
C19_MidRunChangeRunsAfter ==
    /\ [](\A t \in Threads : midRun[t] => pc[t] = "Lock")
    /\ [](\A t \in Threads :
             midRun[t] /\ mu = NoThread /\ rpc # "rlocked" /\ proc = "running"
                 => ENABLED UpdaterLock(t))
    /\ [][\A t \in Threads :
             midRun[t] =>
                 /\ ss'[t] = ss[t]
                 /\ \/ pc'[t] = "Lock" /\ midRun'[t]
                    \/ pc'[t] = "Configure" /\ mu = NoThread /\ mu' = t]_vars

\* The run a change waited for has ended and the change's own attempt can start.
C19_Witness ==
    \E t \in Threads :
        /\ midRun[t]
        /\ pc[t] = "Lock"
        /\ ss[t] # NilPtr
        /\ mu = NoThread
        /\ lastOutcome # "none"

\* C20: a /readyz request can take the read lock, and so complete, whenever
\* no updater is at the flag update itself, a running or stalled attempt
\* notwithstanding.
C20_ReaderNeverWaitsForAttempt ==
    (/\ proc = "running"
     /\ rpc = "idle"
     /\ \A t \in Threads : pc[t] # "updaterReturn")
        => ENABLED ReadyzRLock

\* The event is an update of two StatefulSets of which one declares no count.
UpdateWithMissingCount(e) ==
    /\ e.kind = "update"
    /\ e.old.type = SS
    /\ e.new.type = SS
    /\ e.old.replicas = NilPtr \/ e.new.replicas = NilPtr

\* C21: while and after OnUpdate handles an update in which the old or the
\* new StatefulSet declares no count, the process keeps running, and the
\* handler returns without calling the updater and without a command.
C21_MissingCountTolerated ==
    \A t \in Threads :
        UpdateWithMissingCount(ev[t]) =>
            /\ proc = "running"
            /\ pc[t] = "handle"
            /\ log[t] = <<>>

\* The goroutine is inside WaitPing.
InWaitPing(t) == pc[t] \in {"WaitPing", "WaitPingSelect"}

\* WaitPing returns its client to the caller.
WaitPingReturned(t) == pc[t] \in {"EnsureClusterInitialized", "ClusterReplicate"}

\* A probe of WaitPing that the target answers.
ProbeAnswered(t) == WaitPingProbe(t) /\ WaitPingReturned(t)'

\* C22: WaitPing returns a client only in the step in which a PING to its
\* address succeeded; a probe that fails is followed by the wait, and the next
\* probe comes only when the interval has run out; the loop is left only with
\* a successful probe or, the context done, with the context's error; and if
\* the context is never done and the target does not fail every probe for
\* ever, WaitPing returns its client.
C22_WaitPing ==
    /\ [][\A t \in Threads :
             /\ InWaitPing(t) /\ ~InWaitPing(t)' =>
                   \/ /\ pc[t] = "WaitPing"
                      /\ WaitPingReturned(t)'
                      /\ log'[t] = Append(log[t], Call("PING", addr[t], 0, TRUE))
                   \/ /\ pc[t] = "WaitPingSelect"
                      /\ ctxDone
                      /\ pc'[t] = "updaterReturn"
                      /\ err'[t] \in {"waitLocal", "waitPrimary"}
                      /\ log'[t] = log[t]
             /\ pc[t] = "WaitPing" /\ InWaitPing(t)' /\ log'[t] = log[t] =>
                   pc'[t] \in {"WaitPing", "WaitPingSelect"}
             /\ pc[t] # "WaitPing" /\ pc'[t] = "WaitPing" =>
                   \/ pc[t] = "WaitPingSelect" /\ ~ctxDone
                   \/ pc[t] \in {"Configure", "nodeIP"} /\ CallsTo(t, "PING", addr'[t]) = {}
          ]_vars
    /\ ([]~ctxDone /\ SF_vars(ProbeAnswered(Informer)))
          => (InWaitPing(Informer) ~> WaitPingReturned(Informer))

\* WaitPing has returned the client of the assigned primary.
C22_Witness ==
    \E t \in Threads :
        /\ pc[t] = "ClusterReplicate"
        /\ ~ctxDone
        /\ addr[t] # LocalAddr
        /\ CallsTo(t, "PING", addr[t]) # {}

\* The attempt's status reported slots, or its slot command succeeded.
SlotsOwned(t) ==
    \/ ~clusterInfo[t].nil /\ SlotsAssigned(clusterInfo[t]) > 0
    \/ Succeeded(t, "CLUSTER ADDSLOTSRANGE")

C24_RoleNeverFlips ==
    \A t \in Threads :
        /\ store.replicaOf # NoAddr =>
              /\ CallsOf(t, "CLUSTER ADDSLOTSRANGE") = {}
              /\ CallsOf(t, "CLUSTER MEET") = {}
        /\ store.slots # NoRange => CallsOf(t, "CLUSTER REPLICATE") = {}


====
